---------------------------- MODULE Spec2Model ----------------------------
(***************************************************************************)
(* Chatter: the chat-room session protocol of chatter/consumers.py and the *)
(* access evaluator of chatter/models.py.                                  *)
(*                                                                         *)
(* Strings are tuples of one-character strings, so that prefixing,         *)
(* slug validation and equality are computed on the characters.            *)
(***************************************************************************)
EXTENDS Naturals, Sequences, FiniteSets

VARIABLES
    rooms,          \* Room table: room number -> [owner, access_type, banned_users, invited_users]
    participants,   \* RoomParticipant table: <<room number, username>> -> number of rows
    groups,         \* channel layer: room number (group chat_<number>) -> subscribed sessions
    session,        \* the ChatConsumer instance of every connection
    queue,          \* channel layer: the group events waiting to be dispatched to each consumer
    inbox,          \* the client frames waiting to be dispatched to each consumer's receive_json
    sent,           \* the JSON frames each consumer's latest dispatch sent to its client
    close_code,     \* the code each consumer closed its connection with
    ev              \* one direct call of a function of the program and its result

vars == <<rooms, participants, groups, session, queue, inbox, sent, close_code, ev>>

-----------------------------------------------------------------------------
(* Bounds *)

NumSessions == 3    \* connections
MaxFrames == 1      \* frames the clients send, all connections together
MaxLen == 2         \* length of the username strings given to the evaluator directly
MaxCalls == 2       \* direct calls of remove_participant in a row
MaxBacklog == 2     \* frames the clients send while events wait on the channels

Sessions == 1..NumSessions

-----------------------------------------------------------------------------
(* Strings *)

GUEST_PREFIX == <<"g", "u", "e", "s", "t", "_">>

\* The characters of the model's alphabets that the regular expression class \w matches.
WordChars == {"a", "e", "g", "o", "s", "t", "u", "_"}

\* django.core.validators.validate_unicode_slug: ^[-\w]+\Z
\* TRUE when the value passes, FALSE when ValidationError is raised.
validate_unicode_slug(value) ==
    /\ Len(value) > 0
    /\ \A i \in 1..Len(value) : value[i] \in WordChars \cup {"-"}

\* User.username: max_length.
USERNAME_MAX_LENGTH == 30

\* User.username_validator, UnicodeUsernameValidator: ^[\w.@+-]+\Z, and the
\* field's max_length. TRUE when the value can be an account's username.
username_validator(value) ==
    /\ Len(value) > 0
    /\ Len(value) <= USERNAME_MAX_LENGTH
    /\ \A i \in 1..Len(value) : value[i] \in WordChars \cup {".", "@", "+", "-"}

-----------------------------------------------------------------------------
(* chatter/models.py *)

ALLOWED == "allowed"
NOT_FOUND == "not found"
BAD_USERNAME == "bad username"
CONFIRM_REQUIRED == "confirm required"
NOT_INVITED == "not invited"
BANNED == "banned"
ALREADY_JOINED == "already joined"

\* The close code of ALREADY_JOINED, a member the enumeration of models.py lacks.
ALREADY_JOINED_CODE == "4006"

\* RoomAccessStatus.<member>.value, what connect passes to self.close: the members
\* of models.py are written here as their values, which are strings.
value(member) == IF member = ALREADY_JOINED THEN ALREADY_JOINED_CODE ELSE member

\* The close code of a close frame sent without one (send_json(..., close=True)).
NORMAL_CLOSURE == "1000"

PUBLIC == "PUBLIC"
CONFIRMED == "CONFIRMED"
PRIVATE == "PRIVATE"
AccessTypes == {PUBLIC, CONFIRMED, PRIVATE}

None == "None"

\* django.contrib.auth.models.AnonymousUser
AnonymousUser == [is_authenticated |-> FALSE, username |-> <<>>]

\* An account of the User table.
Account(name) == [is_authenticated |-> TRUE, username |-> name]

\* room.banned_users.filter(username=username).exists()
is_banned(room, username) == username \in room.banned_users

\* room.invited_users.filter(username=username).exists()
is_invited(room, username) == username \in room.invited_users

\* Mutants of validates_username: everyone is validated; nobody is.
validates_username_always(is_authenticated) == TRUE
validates_username_never(is_authenticated) == FALSE

\* The username is validated for callers that are not logged in.
validates_username(is_authenticated) == ~is_authenticated

\* Mutant of get_access_status: the invitation is checked before the ban.
get_access_status_invite_first(db, room_number, is_authenticated, username) ==
    IF room_number \notin DOMAIN db
    THEN <<None, NOT_FOUND>>
    ELSE LET room == db[room_number] IN
         IF validates_username(is_authenticated) /\ ~validate_unicode_slug(username)
         THEN <<room_number, BAD_USERNAME>>
         ELSE IF room.access_type = CONFIRMED /\ ~is_authenticated
         THEN <<room_number, CONFIRM_REQUIRED>>
         ELSE IF room.access_type = PRIVATE /\ ~is_invited(room, username)
         THEN <<room_number, NOT_INVITED>>
         ELSE IF is_banned(room, username)
         THEN <<room_number, BANNED>>
         ELSE <<room_number, ALLOWED>>

\* Mutant of get_access_status: the access type is left out of the confirm check.
get_access_status_guests_confirm(db, room_number, is_authenticated, username) ==
    IF room_number \notin DOMAIN db
    THEN <<None, NOT_FOUND>>
    ELSE LET room == db[room_number] IN
         IF validates_username(is_authenticated) /\ ~validate_unicode_slug(username)
         THEN <<room_number, BAD_USERNAME>>
         ELSE IF ~is_authenticated
         THEN <<room_number, CONFIRM_REQUIRED>>
         ELSE IF is_banned(room, username)
         THEN <<room_number, BANNED>>
         ELSE IF room.access_type = PRIVATE /\ ~is_invited(room, username)
         THEN <<room_number, NOT_INVITED>>
         ELSE <<room_number, ALLOWED>>

\* RoomManager.get_access_status: <<room or None, RoomAccessStatus>>.
\* db is the Room table; banned_users and invited_users hold account usernames.
get_access_status(db, room_number, is_authenticated, username) ==
    IF room_number \notin DOMAIN db
    THEN <<None, NOT_FOUND>>
    ELSE LET room == db[room_number] IN
         IF validates_username(is_authenticated) /\ ~validate_unicode_slug(username)
         THEN <<room_number, BAD_USERNAME>>
         ELSE IF room.access_type = CONFIRMED /\ ~is_authenticated
         THEN <<room_number, CONFIRM_REQUIRED>>
         ELSE IF is_banned(room, username)
         THEN <<room_number, BANNED>>
         ELSE IF room.access_type = PRIVATE /\ ~is_invited(room, username)
         THEN <<room_number, NOT_INVITED>>
         ELSE <<room_number, ALLOWED>>


-----------------------------------------------------------------------------
(* The data of the session protocol *)

RoomNumber == "1234567890"

\* Room.name of the rooms (tests/test_chat.py).
RoomName == <<"R", "o", "o", "m">>     \* the room of the tests
UnknownNumber == "54321"      \* a number no room has
RoomNumbers == {RoomNumber}

OwnerName == <<"o">>
GuestTName == GUEST_PREFIX \o <<"t">>  \* an account registered as "guest_t"
Accounts == {Account(OwnerName), Account(GuestTName)}

\* Values of the guest query parameter: absent or blank, "t", " ".
GuestValues == {<<>>, <<"t">>, <<" ">>}

\* What a connection's scope can hold: the user, the guest parameter, the room number.
Scopes ==
    {[user |-> u, guest |-> <<>>, room_number |-> n] :
        u \in Accounts, n \in {RoomNumber, UnknownNumber}}
    \cup
    {[user |-> AnonymousUser, guest |-> g, room_number |-> n] :
        g \in GuestValues, n \in {RoomNumber, UnknownNumber}}

\* Every username a connection can resolve to.
Usernames ==
    {a.username : a \in Accounts}
    \cup {<<>>}
    \cup {GUEST_PREFIX \o g : g \in GuestValues \ {<<>>}}

-----------------------------------------------------------------------------
(* chatter/consumers.py: helpers *)

\* extract_username on the value of the guest parameter: parse_qs drops a blank
\* value, so an absent and an empty parameter both end in the except branch.
extract_username(guest) ==
    IF guest = <<>> THEN <<>> ELSE GUEST_PREFIX \o guest

\* ChatConsumer.connect, lines 166-170.
resolve_username(user, guest) ==
    IF user.is_authenticated THEN user.username ELSE extract_username(guest)

\* is_owner
is_owner(room, user) == room.owner = user

\* Mutant of room_username_unique: the table has no unique constraint.
room_username_unique_dropped(rows, room, username) == TRUE

\* The UniqueConstraint room_username of RoomParticipant: an INSERT of
\* (room, username) succeeds only when no such row exists.
room_username_unique(rows, room, username) == rows[<<room, username>>] = 0

\* RoomParticipant.objects.filter(room=..., username=...).exists()
participant_exists(rows, room, username) == rows[<<room, username>>] > 0

\* remove_participant, its return value: whether delete() deleted a row.
deleted_any(rows, room, username) == rows[<<room, username>>] > 0

\* Mutant of remove_participant: the filter leaves the username out.
remove_participant_of_room(rows, room, username) ==
    [k \in DOMAIN rows |-> IF k[1] = room THEN 0 ELSE rows[k]]

\* Mutant of remove_participant: nothing is deleted.
remove_participant_kept(rows, room, username) == rows

\* remove_participant: the table after filter(room, username).delete().
remove_participant(rows, room, username) ==
    [rows EXCEPT ![<<room, username>>] = 0]

\* Mutant of group_discard: the channel is put into the group.
group_discard_subscribes(g, group_name, channel) ==
    IF group_name \in DOMAIN g
    THEN [g EXCEPT ![group_name] = @ \cup {channel}]
    ELSE g

\* channel_layer.group_discard
group_discard(g, group_name, channel) ==
    IF group_name \in DOMAIN g
    THEN [g EXCEPT ![group_name] = @ \ {channel}]
    ELSE g

\* channel_layer.group_add
group_add(g, group_name, channel) ==
    [g EXCEPT ![group_name] = @ \cup {channel}]

\* get_participants: the usernames of the room's rows (one per row), as a set.
get_participants(rows, room) ==
    {k[2] : k \in {j \in DOMAIN rows : j[1] = room /\ rows[j] > 0}}

\* The update connect sends once the connection is accepted (lines 178-183).
joined_successfully(username) ==
    [update |-> "joined successfully", joined_as |-> username]

-----------------------------------------------------------------------------
(* State *)

\* A consumer before its connection: content is the frame its latest receive_json
\* was called with, frames the number of frames its client has sent.
NoSession ==
    [pc |-> "idle", user |-> AnonymousUser, guest |-> <<>>, room_number |-> None,
     username |-> <<>>, room |-> None, access_status |-> None, is_owner |-> FALSE,
     room_access_type |-> None, room_name |-> <<>>, frames |-> 0, content |-> <<>>]

NoEval ==
    [db |-> <<>>, room_number |-> None, is_authenticated |-> FALSE, username |-> <<>>,
     called |-> FALSE, result |-> <<None, None>>]

\* The room configurations a run can start from.
InitialRooms ==
    {[n \in RoomNumbers |->
        [name |-> RoomName, owner |-> Account(OwnerName), access_type |-> a,
         banned_users |-> {}, invited_users |-> i]] :
        a \in AccessTypes, i \in {{}, {GuestTName}}}

Init ==
    /\ rooms \in InitialRooms
    /\ participants = [k \in RoomNumbers \X Usernames |-> 0]
    /\ groups = [n \in RoomNumbers |-> {}]
    /\ session = [s \in Sessions |-> NoSession]
    /\ queue = [s \in Sessions |-> <<>>]
    /\ inbox = [s \in Sessions |-> <<>>]
    /\ sent = [s \in Sessions |-> <<>>]
    /\ close_code = [s \in Sessions |-> None]
    /\ ev = NoEval

-----------------------------------------------------------------------------
(* ChatConsumer.connect *)

\* Lines 161-173 and 189-190: the scope is read, the username resolved and the
\* access status fetched; any status but ALLOWED closes the connection.
Connect(s, scope) ==
    /\ session[s].pc = "idle"
    /\ LET username == resolve_username(scope.user, scope.guest)
           got == get_access_status(rooms, scope.room_number,
                                    scope.user.is_authenticated, username)
       IN /\ session' = [session EXCEPT ![s] =
              [pc |-> IF got[2] = ALLOWED THEN "add_get" ELSE "closing",
               user |-> scope.user, guest |-> scope.guest,
               room_number |-> scope.room_number, username |-> username,
               room |-> got[1], access_status |-> got[2], is_owner |-> FALSE,
               room_access_type |-> IF got[1] = None THEN None
                                    ELSE rooms[got[1]].access_type,
               room_name |-> IF got[1] = None THEN <<>> ELSE rooms[got[1]].name,
               frames |-> 0, content |-> <<>>]]
          /\ close_code' = IF got[2] = ALLOWED THEN close_code
                           ELSE [close_code EXCEPT ![s] = value(got[2])]
    /\ UNCHANGED <<rooms, participants, groups, queue, inbox, sent, ev>>

\* add_participant, the lookup of get_or_create: an existing row makes it return
\* False, and connect closes with ALREADY_JOINED (lines 187-188).
AddGet(s) ==
    /\ session[s].pc = "add_get"
    /\ session' = [session EXCEPT ![s] =
          IF participant_exists(participants, @.room, @.username)
          THEN [@ EXCEPT !.pc = "closing", !.access_status = ALREADY_JOINED]
          ELSE [@ EXCEPT !.pc = "add_create"]]
    /\ close_code' =
          IF participant_exists(participants, session[s].room, session[s].username)
          THEN [close_code EXCEPT ![s] = value(ALREADY_JOINED)]
          ELSE close_code
    /\ UNCHANGED <<rooms, participants, groups, queue, inbox, sent, ev>>

\* add_participant, the INSERT of get_or_create: it creates the row and returns
\* True, or is refused by the unique constraint and returns False.
AddCreate(s) ==
    /\ session[s].pc = "add_create"
    /\ LET me == session[s] IN
       IF room_username_unique(participants, me.room, me.username)
       THEN /\ participants' = [participants EXCEPT ![<<me.room, me.username>>] = @ + 1]
            /\ session' = [session EXCEPT ![s].pc = "accept"]
            /\ close_code' = close_code
       ELSE /\ participants' = participants
            /\ session' = [session EXCEPT ![s].pc = "closing",
                                          ![s].access_status = ALREADY_JOINED]
            /\ close_code' = [close_code EXCEPT ![s] = value(ALREADY_JOINED)]
    /\ UNCHANGED <<rooms, groups, queue, inbox, sent, ev>>

\* Lines 176-183: the owner flag is computed, the connection accepted and the
\* client told "joined successfully".
Accept(s) ==
    /\ session[s].pc = "accept"
    /\ session' = [session EXCEPT ![s].pc = "group_add",
                                  ![s].is_owner = is_owner(rooms[session[s].room], session[s].user)]
    /\ sent' = [sent EXCEPT ![s] = <<joined_successfully(session[s].username)>>]
    /\ UNCHANGED <<rooms, participants, groups, queue, inbox, close_code, ev>>

\* Lines 184-186: the channel joins the room's group; connect returns.
GroupAdd(s) ==
    /\ session[s].pc = "group_add"
    /\ groups' = group_add(groups, session[s].room_number, s)
    /\ session' = [session EXCEPT ![s].pc = "active"]
    /\ UNCHANGED <<rooms, participants, queue, inbox, sent, close_code, ev>>

-----------------------------------------------------------------------------
(* ChatConsumer.disconnect *)

\* The transport's websocket.disconnect is dispatched, for a connection the client
\* closed or one the server closed, after the frames the client sent before it:
\* disconnect runs group_discard (line 200).
Disconnect(s) ==
    /\ session[s].pc \in {"active", "closing"}
    /\ inbox[s] = <<>>
    /\ groups' = group_discard(groups, session[s].room_number, s)
    /\ session' = [session EXCEPT ![s].pc = "remove"]
    /\ UNCHANGED <<rooms, participants, queue, inbox, sent, close_code, ev>>

\* Line 201: remove_participant(self.room, self.username). With self.room None
\* room.id raises and the consumer ends without touching the table. The consumer
\* stops, and the events still waiting on its channel are never dispatched.
RemoveParticipant(s) ==
    /\ session[s].pc = "remove"
    /\ participants' =
          IF session[s].room = None
          THEN participants
          ELSE remove_participant(participants, session[s].room, session[s].username)
    /\ session' = [session EXCEPT ![s].pc = "closed"]
    /\ queue' = [queue EXCEPT ![s] = <<>>]
    /\ UNCHANGED <<rooms, groups, inbox, sent, close_code, ev>>

-----------------------------------------------------------------------------
(* ChatConsumer.receive_json and the group event handlers *)

\* str.startswith
startswith(string, prefix) ==
    /\ Len(string) >= Len(prefix)
    /\ SubSeq(string, 1, Len(prefix)) = prefix

\* The content of a text frame whose JSON is not an object, such as "[]": a list,
\* which has no get method.
NOT_AN_OBJECT == [list |-> <<>>]

\* The decoded JSON is an object: content.get exists.
is_object(content) == "list" \notin DOMAIN content

\* content.get("action") of an object.
action_of(content) ==
    IF "action" \in DOMAIN content THEN content.action ELSE None

\* str(content.get("username")): a frame without the key gives str(None).
username_of(content) ==
    IF "username" \in DOMAIN content THEN content.username ELSE <<"N", "o", "n", "e">>

\* content.get("access type")
access_type_of(content) ==
    IF "access_type" \in DOMAIN content THEN content.access_type ELSE None

\* str(content.get("message", ""))
message_of(content) ==
    IF "message" \in DOMAIN content THEN content.message ELSE <<>>

\* str(content.get("name", ""))
name_of(content) ==
    IF "name" \in DOMAIN content THEN content.name ELSE <<>>

\* str(content) of a "change room name" frame: the text of the whole dictionary.
str(content) ==
    <<"{'action': 'change room name', 'name': '">> \o name_of(content) \o <<"'}">>

\* str.strip: the whitespace at both ends is dropped.
RECURSIVE strip(_)
strip(string) ==
    IF string = <<>> THEN <<>>
    ELSE IF Head(string) = " " THEN strip(Tail(string))
    ELSE IF string[Len(string)] = " " THEN strip(SubSeq(string, 1, Len(string) - 1))
    ELSE string

\* Mutant of group_send: the event is put on every channel, whatever its group.
group_send_everywhere(q, g, group_name, event) ==
    [t \in DOMAIN q |-> Append(q[t], event)]

\* channel_layer.group_send: the event is put on the channel of every member of
\* the group.
group_send(q, g, group_name, event) ==
    [t \in DOMAIN q |-> IF t \in g[group_name] THEN Append(q[t], event) ELSE q[t]]

\* Mutant of may_kick: the owner flag is not looked at.
may_kick_anyone(owner_flag, username_to_kick) == username_to_kick # <<>>

\* Line 247: the condition under which "kick user" publishes.
may_kick(owner_flag, username_to_kick) ==
    owner_flag /\ username_to_kick # <<>>

\* Mutant of may_ban: guest usernames are not exempt.
may_ban_guests(owner_flag, username_to_ban) ==
    owner_flag /\ username_to_ban # <<>>

\* Lines 254-258: the condition under which "ban user" publishes.
may_ban(owner_flag, username_to_ban) ==
    /\ owner_flag
    /\ username_to_ban # <<>>
    /\ ~startswith(username_to_ban, GUEST_PREFIX)

\* Mutant of names_me: every consumer takes the event to name it.
names_me_always(event, username) == TRUE

\* Lines 322 and 336: the event names this consumer's username.
names_me(event, username) == event.username = username

\* Mutant of ban_user: the owner of the room is banned, not the user.
ban_user_owner(db, room, room_access_type, room_name, user) ==
    [db EXCEPT ![room].banned_users = @ \cup {db[room].owner.username}]

\* ban_user: room.save() writes the Room object the consumer loaded when it
\* connected, its access type and its name included.
ban_user(db, room, room_access_type, room_name, user) ==
    IF user.is_authenticated
    THEN [db EXCEPT ![room].banned_users = @ \cup {user.username},
                    ![room].access_type = room_access_type,
                    ![room].name = room_name]
    ELSE db

\* str.join
RECURSIVE join(_, _)
join(list, sep) ==
    IF list = <<>> THEN <<>>
    ELSE IF Len(list) = 1 THEN list[1]
    ELSE list[1] \o sep \o join(Tail(list), sep)

\* str.split with a separator: the pieces between the occurrences of sep, and
\* the whole string, even an empty one, when sep does not occur.
RECURSIVE split(_, _)
split(string, sep) ==
    LET found == {i \in 1..(Len(string) - Len(sep) + 1) :
                     SubSeq(string, i, i + Len(sep) - 1) = sep}
    IN IF found = {} THEN <<string>>
       ELSE LET i == CHOOSE j \in found : \A k \in found : j <= k
            IN <<SubSeq(string, 1, i - 1)>>
               \o split(SubSeq(string, i + Len(sep), Len(string)), sep)

\* list(queryset.values_list("username", flat=True)): the usernames in the order
\* the database returns them, here one fixed order.
RECURSIVE values_list(_)
values_list(usernames) ==
    IF usernames = {} THEN <<>>
    ELSE LET u == CHOOSE x \in usernames : TRUE
         IN <<u>> \o values_list(usernames \ {u})

\* The separator of the event's "kick" string (lines 242 and 296).
KICK_SEPARATOR == <<",", " ">>

\* Mutant of to_kick_for: CONFIRMED sends every participant away.
to_kick_for_everyone(db, rows, room, access_type) ==
    IF access_type \in {CONFIRMED, PRIVATE}
    THEN values_list({u \in get_participants(rows, room) : ~is_invited(db[room], u)})
    ELSE <<>>

\* change_room_access_type, its return value: the participants to be kicked.
to_kick_for(db, rows, room, access_type) ==
    IF access_type = CONFIRMED
    THEN values_list({u \in get_participants(rows, room) : startswith(u, GUEST_PREFIX)})
    ELSE IF access_type = PRIVATE
    THEN values_list({u \in get_participants(rows, room) : ~is_invited(db[room], u)})
    ELSE <<>>

\* The characters usernames are made of, by ascending code point.
CodePoints == <<"-", "N", "_", "a", "e", "g", "n", "o", "s", "t", "u">>

\* ord
ord(c) == CHOOSE i \in 1..Len(CodePoints) : CodePoints[i] = c

\* a < b for strings: the comparison of order_by("username").
RECURSIVE precedes(_, _)
precedes(a, b) ==
    IF a = <<>> THEN b # <<>>
    ELSE IF b = <<>> THEN FALSE
    ELSE IF a[1] = b[1] THEN precedes(Tail(a), Tail(b))
    ELSE ord(a[1]) < ord(b[1])

\* list(queryset.order_by("username")): the usernames in ascending order.
RECURSIVE order_by(_)
order_by(usernames) ==
    IF usernames = {} THEN <<>>
    ELSE LET u == CHOOSE x \in usernames : \A y \in usernames \ {x} : precedes(x, y)
         IN <<u>> \o order_by(usernames \ {u})

\* get_info_update: the room is read again from the database; the participants
\* are listed in ascending order, without the kicked ones.
get_info_update(db, rows, room, kicked) ==
    [update |-> "info",
     name |-> db[room].name,
     access_type |-> db[room].access_type,
     owner |-> db[room].owner.username,
     participants |-> SelectSeq(order_by(get_participants(rows, room)),
                                LAMBDA u : \A i \in 1..Len(kicked) : kicked[i] # u)]

\* send_json: a frame reaches the client unless this consumer has already sent
\* its close frame.
send_json(codes, s, frames) == IF codes[s] = None THEN frames ELSE <<>>

\* self.close() of send_json(..., close=True): the first close frame counts.
close(codes, s) == IF codes[s] = None THEN [codes EXCEPT ![s] = NORMAL_CLOSURE] ELSE codes

\* The consumer is between two dispatches and has not stopped: connect has returned,
\* and the transport's websocket.disconnect has not been dispatched.
Dispatching(s) == session[s].pc \in {"active", "closing"}

\* The number of frames the clients of the connections in S have sent.
RECURSIVE FramesSent(_)
FramesSent(S) ==
    IF S = {} THEN 0
    ELSE LET s == CHOOSE x \in S : TRUE IN session[s].frames + FramesSent(S \ {s})

\* The client sends a JSON frame on its open connection, while the clients have
\* sent fewer frames than the budget.
ClientSendWithin(s, content, budget) ==
    /\ session[s].pc = "active"
    /\ FramesSent(Sessions) < budget
    /\ inbox[s] = <<>>
    /\ inbox' = [inbox EXCEPT ![s] = <<content>>]
    /\ session' = [session EXCEPT ![s].frames = @ + 1]
    /\ UNCHANGED <<rooms, participants, groups, queue, sent, close_code, ev>>

ClientSend(s, content) == ClientSendWithin(s, content, MaxFrames)

\* receive_json, "send message" (lines 209-217).
ReceiveSendMessage(s) ==
    /\ Dispatching(s)
    /\ inbox[s] # <<>>
    /\ is_object(inbox[s][1])
    /\ action_of(inbox[s][1]) = "send message"
    /\ queue' = group_send(queue, groups, session[s].room_number,
                           [type |-> "chat_message",
                            message |-> message_of(inbox[s][1]),
                            username |-> session[s].username])
    /\ inbox' = [inbox EXCEPT ![s] = <<>>]
    /\ session' = [session EXCEPT ![s].content = inbox[s]]
    /\ sent' = [sent EXCEPT ![s] = <<>>]
    /\ UNCHANGED <<rooms, participants, groups, close_code, ev>>

\* receive_json, "kick user" (lines 246-251).
ReceiveKickUser(s) ==
    /\ Dispatching(s)
    /\ inbox[s] # <<>>
    /\ is_object(inbox[s][1])
    /\ action_of(inbox[s][1]) = "kick user"
    /\ LET username_to_kick == username_of(inbox[s][1]) IN
       IF may_kick(session[s].is_owner, username_to_kick)
       THEN queue' = group_send(queue, groups, session[s].room_number,
                              [type |-> "chat_kick", username |-> username_to_kick])
       ELSE queue' = queue
    /\ inbox' = [inbox EXCEPT ![s] = <<>>]
    /\ session' = [session EXCEPT ![s].content = inbox[s]]
    /\ sent' = [sent EXCEPT ![s] = <<>>]
    /\ UNCHANGED <<rooms, participants, groups, close_code, ev>>

\* receive_json, "ban user" (lines 253-262).
ReceiveBanUser(s) ==
    /\ Dispatching(s)
    /\ inbox[s] # <<>>
    /\ is_object(inbox[s][1])
    /\ action_of(inbox[s][1]) = "ban user"
    /\ LET username_to_ban == username_of(inbox[s][1]) IN
       IF may_ban(session[s].is_owner, username_to_ban)
       THEN queue' = group_send(queue, groups, session[s].room_number,
                              [type |-> "chat_ban", username |-> username_to_ban])
       ELSE queue' = queue
    /\ inbox' = [inbox EXCEPT ![s] = <<>>]
    /\ session' = [session EXCEPT ![s].content = inbox[s]]
    /\ sent' = [sent EXCEPT ![s] = <<>>]
    /\ UNCHANGED <<rooms, participants, groups, close_code, ev>>

\* receive_json, "change room access type" (lines 230-244): the consumer's Room
\* object gets the access type and is saved, and the event carries the usernames
\* to kick joined into one string.
ReceiveChangeAccessType(s) ==
    /\ Dispatching(s)
    /\ inbox[s] # <<>>
    /\ is_object(inbox[s][1])
    /\ action_of(inbox[s][1]) = "change room access type"
    /\ LET access_type == access_type_of(inbox[s][1])
           room == session[s].room
           db == [rooms EXCEPT ![room].access_type = access_type,
                               ![room].name = session[s].room_name]
       IN IF access_type \in {PUBLIC, CONFIRMED, PRIVATE}
          THEN /\ rooms' = db
               /\ session' = [session EXCEPT ![s].room_access_type = access_type,
                                             ![s].content = inbox[s]]
               /\ queue' = group_send(queue, groups, session[s].room_number,
                                      [type |-> "chat_access_type_change",
                                       access_type |-> access_type,
                                       kick |-> join(to_kick_for(db, participants, room,
                                                                 access_type),
                                                     KICK_SEPARATOR)])
          ELSE /\ session' = [session EXCEPT ![s].content = inbox[s]]
               /\ UNCHANGED <<rooms, queue>>
    /\ inbox' = [inbox EXCEPT ![s] = <<>>]
    /\ sent' = [sent EXCEPT ![s] = <<>>]
    /\ UNCHANGED <<participants, groups, close_code, ev>>

\* receive_json, "change room name" (lines 222-228): change_room_name is handed
\* content, the whole frame, which room.save() stores as its text (lines 122-123)
\* together with the rest of the consumer's Room object; the event carries the
\* submitted name.
ReceiveChangeRoomName(s) ==
    /\ Dispatching(s)
    /\ inbox[s] # <<>>
    /\ is_object(inbox[s][1])
    /\ action_of(inbox[s][1]) = "change room name"
    /\ LET new_name == name_of(inbox[s][1])
           room == session[s].room
       IN IF new_name # <<>> /\ strip(new_name) # <<>>
          THEN /\ rooms' = [rooms EXCEPT ![room].name = str(inbox[s][1]),
                                         ![room].access_type = session[s].room_access_type]
               /\ session' = [session EXCEPT ![s].room_name = str(inbox[s][1]),
                                             ![s].content = inbox[s]]
               /\ queue' = group_send(queue, groups, session[s].room_number,
                                      [type |-> "chat_room_name_change",
                                       name |-> new_name])
          ELSE /\ session' = [session EXCEPT ![s].content = inbox[s]]
               /\ UNCHANGED <<rooms, queue>>
    /\ inbox' = [inbox EXCEPT ![s] = <<>>]
    /\ sent' = [sent EXCEPT ![s] = <<>>]
    /\ UNCHANGED <<participants, groups, close_code, ev>>

\* receive_json, "get info" (lines 219-220): the info update is sent to the
\* requester; get_info_update refreshes the consumer's Room object.
ReceiveGetInfo(s) ==
    /\ Dispatching(s)
    /\ inbox[s] # <<>>
    /\ is_object(inbox[s][1])
    /\ action_of(inbox[s][1]) = "get info"
    /\ sent' = [sent EXCEPT ![s] =
                  send_json(close_code, s,
                            <<get_info_update(rooms, participants, session[s].room, <<>>)>>)]
    /\ session' = [session EXCEPT ![s].content = inbox[s],
                                  ![s].room_access_type = rooms[session[s].room].access_type,
                                  ![s].room_name = rooms[session[s].room].name]
    /\ inbox' = [inbox EXCEPT ![s] = <<>>]
    /\ UNCHANGED <<rooms, participants, groups, queue, close_code, ev>>

\* The action names the if/elif chain of receive_json compares with (lines 209-253).
BranchActions ==
    {"send message", "get info", "change room name", "change room access type",
     "kick user", "ban user"}

\* receive_json with an action no branch compares equal to: the method returns.
ReceiveNoBranch(s) ==
    /\ Dispatching(s)
    /\ inbox[s] # <<>>
    /\ is_object(inbox[s][1])
    /\ action_of(inbox[s][1]) \notin BranchActions
    /\ session' = [session EXCEPT ![s].content = inbox[s]]
    /\ inbox' = [inbox EXCEPT ![s] = <<>>]
    /\ sent' = [sent EXCEPT ![s] = <<>>]
    /\ UNCHANGED <<rooms, participants, groups, queue, close_code, ev>>

\* receive_json, line 207, with content that is not an object: content.get raises
\* AttributeError, which nothing catches, so the consumer stops without a
\* websocket.disconnect being dispatched: disconnect() does not run.
ReceiveRaises(s) ==
    /\ Dispatching(s)
    /\ inbox[s] # <<>>
    /\ ~is_object(inbox[s][1])
    /\ session' = [session EXCEPT ![s].pc = "stopped", ![s].content = inbox[s]]
    /\ inbox' = [inbox EXCEPT ![s] = <<>>]
    /\ sent' = [sent EXCEPT ![s] = <<>>]
    /\ UNCHANGED <<rooms, participants, groups, queue, close_code, ev>>

\* chat_room_name_change
ChatRoomNameChange(s) ==
    /\ Dispatching(s)
    /\ queue[s] # <<>>
    /\ Head(queue[s]).type = "chat_room_name_change"
    /\ queue' = [queue EXCEPT ![s] = Tail(@)]
    /\ sent' = [sent EXCEPT ![s] =
                  send_json(close_code, s,
                            <<[update |-> "name change", name |-> Head(queue[s]).name]>>)]
    /\ UNCHANGED <<rooms, participants, groups, session, inbox, close_code, ev>>

\* chat_message
ChatMessage(s) ==
    /\ Dispatching(s)
    /\ queue[s] # <<>>
    /\ Head(queue[s]).type = "chat_message"
    /\ queue' = [queue EXCEPT ![s] = Tail(@)]
    /\ sent' = [sent EXCEPT ![s] =
                  send_json(close_code, s,
                            <<[update |-> "new message",
                               message |-> Head(queue[s]).message,
                               username |-> Head(queue[s]).username]>>)]
    /\ UNCHANGED <<rooms, participants, groups, session, inbox, close_code, ev>>

\* chat_kick: for the consumer the event names, self.disconnect(None) begins with
\* group_discard (line 200); any other consumer tells its client "user kicked".
ChatKick(s) ==
    /\ Dispatching(s)
    /\ queue[s] # <<>>
    /\ Head(queue[s]).type = "chat_kick"
    /\ queue' = [queue EXCEPT ![s] = Tail(@)]
    /\ IF names_me(Head(queue[s]), session[s].username)
       THEN /\ groups' = group_discard(groups, session[s].room_number, s)
            /\ session' = [session EXCEPT ![s].pc = "kick_remove"]
            /\ sent' = [sent EXCEPT ![s] = <<>>]
       ELSE /\ sent' = [sent EXCEPT ![s] =
                          send_json(close_code, s,
                                    <<[update |-> "user kicked",
                                       username |-> Head(queue[s]).username]>>)]
            /\ UNCHANGED <<groups, session>>
    /\ UNCHANGED <<rooms, participants, inbox, close_code, ev>>

\* chat_kick, the rest of it: remove_participant (line 201), then "kicked you" is
\* sent and the connection closed (line 324).
KickRemove(s) ==
    /\ session[s].pc = "kick_remove"
    /\ participants' = remove_participant(participants, session[s].room, session[s].username)
    /\ sent' = [sent EXCEPT ![s] = send_json(close_code, s, <<[update |-> "kicked you"]>>)]
    /\ close_code' = close(close_code, s)
    /\ session' = [session EXCEPT ![s].pc = "closing"]
    /\ UNCHANGED <<rooms, groups, queue, inbox, ev>>

\* chat_ban: for the consumer the event names, ban_user (line 337); any other
\* consumer tells its client "user banned".
ChatBan(s) ==
    /\ Dispatching(s)
    /\ queue[s] # <<>>
    /\ Head(queue[s]).type = "chat_ban"
    /\ queue' = [queue EXCEPT ![s] = Tail(@)]
    /\ IF names_me(Head(queue[s]), session[s].username)
       THEN /\ rooms' = ban_user(rooms, session[s].room, session[s].room_access_type,
                                 session[s].room_name, session[s].user)
            /\ session' = [session EXCEPT ![s].pc = "ban_discard"]
            /\ sent' = [sent EXCEPT ![s] = <<>>]
       ELSE /\ sent' = [sent EXCEPT ![s] =
                          send_json(close_code, s,
                                    <<[update |-> "user banned",
                                       username |-> Head(queue[s]).username]>>)]
            /\ UNCHANGED <<rooms, session>>
    /\ UNCHANGED <<participants, groups, inbox, close_code, ev>>

\* chat_ban, self.disconnect(None): group_discard (line 200).
BanDiscard(s) ==
    /\ session[s].pc = "ban_discard"
    /\ groups' = group_discard(groups, session[s].room_number, s)
    /\ session' = [session EXCEPT ![s].pc = "ban_remove"]
    /\ UNCHANGED <<rooms, participants, queue, inbox, sent, close_code, ev>>

\* chat_ban, the rest of it: remove_participant (line 201), then "banned you" is
\* sent and the connection closed (line 339).
BanRemove(s) ==
    /\ session[s].pc = "ban_remove"
    /\ participants' = remove_participant(participants, session[s].room, session[s].username)
    /\ sent' = [sent EXCEPT ![s] = send_json(close_code, s, <<[update |-> "banned you"]>>)]
    /\ close_code' = close(close_code, s)
    /\ session' = [session EXCEPT ![s].pc = "closing"]
    /\ UNCHANGED <<rooms, groups, queue, inbox, ev>>

\* chat_access_type_change: a consumer whose username is in the event's kick list
\* begins self.disconnect(None) with group_discard (line 200); any other consumer
\* tells its client how many users were kicked (lines 307-313).
ChatAccessTypeChange(s) ==
    /\ Dispatching(s)
    /\ queue[s] # <<>>
    /\ Head(queue[s]).type = "chat_access_type_change"
    /\ LET to_kick == split(Head(queue[s]).kick, KICK_SEPARATOR) IN
       IF \E i \in 1..Len(to_kick) : to_kick[i] = session[s].username
       THEN /\ groups' = group_discard(groups, session[s].room_number, s)
            /\ session' = [session EXCEPT ![s].pc = "access_remove"]
            /\ sent' = [sent EXCEPT ![s] = <<>>]
       ELSE /\ sent' = [sent EXCEPT ![s] =
                          send_json(close_code, s,
                                    <<[update |-> "users kicked because access change",
                                       access_type |-> Head(queue[s]).access_type,
                                       quantity |-> Len(to_kick)]>>)]
            /\ session' = [session EXCEPT ![s].pc = "access_info"]
            /\ groups' = groups
    /\ UNCHANGED <<rooms, participants, queue, inbox, close_code, ev>>

\* chat_access_type_change of a kicked consumer, the rest of it: remove_participant
\* (line 201), then "kicked you because access change" is sent and the connection
\* closed (lines 299-305).
AccessRemove(s) ==
    /\ session[s].pc = "access_remove"
    /\ participants' = remove_participant(participants, session[s].room, session[s].username)
    /\ sent' = [sent EXCEPT ![s] =
                  send_json(close_code, s,
                            <<[update |-> "kicked you because access change",
                               access_type |-> Head(queue[s]).access_type]>>)]
    /\ close_code' = close(close_code, s)
    /\ queue' = [queue EXCEPT ![s] = Tail(@)]
    /\ session' = [session EXCEPT ![s].pc = "closing"]
    /\ UNCHANGED <<rooms, groups, inbox, ev>>

\* chat_access_type_change of any other consumer, the rest of it: the room is read
\* again and the info update sent (line 314).
AccessInfo(s) ==
    /\ session[s].pc = "access_info"
    /\ sent' = [sent EXCEPT ![s] =
                  send_json(close_code, s,
                            <<get_info_update(rooms, participants, session[s].room,
                                              split(Head(queue[s]).kick, KICK_SEPARATOR))>>)]
    /\ queue' = [queue EXCEPT ![s] = Tail(@)]
    /\ session' = [session EXCEPT ![s].pc = IF close_code[s] = None THEN "active" ELSE "closing",
                                  ![s].room_access_type = rooms[session[s].room].access_type,
                                  ![s].room_name = rooms[session[s].room].name]
    /\ UNCHANGED <<rooms, participants, groups, inbox, close_code, ev>>

-----------------------------------------------------------------------------
(* Specifications *)

\* Connections that join, are rejected and are torn down, with any caller and any
\* room configuration; their clients send no frames.
Next ==
    \E s \in Sessions :
        \/ \E scope \in Scopes : Connect(s, scope)
        \/ AddGet(s)
        \/ AddCreate(s)
        \/ Accept(s)
        \/ GroupAdd(s)
        \/ Disconnect(s)
        \/ RemoveParticipant(s)

Spec == Init /\ [][Next]_vars

\* Connections that only join: no connection is torn down, so nothing leaves the
\* RoomParticipant table while the add_participant calls race.
JoinNext ==
    \E s \in Sessions :
        \/ \E scope \in Scopes : Connect(s, scope)
        \/ AddGet(s)
        \/ AddCreate(s)
        \/ Accept(s)
        \/ GroupAdd(s)

SpecJoin == Init /\ [][JoinNext]_vars

\* A chat: two public rooms of one owner; the owner, a registered user and a guest
\* connect to the first and a guest to the second, and the clients send frames,
\* which the consumers handle along with the group events the frames publish.
OtherNumber == "0987654321"
ChatRoomNumbers == {RoomNumber, OtherNumber}
UserName == <<"u">>
ChatUsernames == {OwnerName, UserName, GuestTName}

\* Connections are interchangeable: the first is the owner's, the others are the
\* user's or a guest's.
ChatScopes(s) ==
    IF s = 1
    THEN {[user |-> Account(OwnerName), guest |-> <<>>, room_number |-> RoomNumber]}
    ELSE {[user |-> Account(UserName), guest |-> <<>>, room_number |-> RoomNumber]}
         \cup {[user |-> AnonymousUser, guest |-> <<"t">>, room_number |-> n] :
                  n \in ChatRoomNumbers}

MessageText == <<"h", "i">>

\* The names a client submits: a name, and one that is only whitespace.
NewName == <<"n">>
BlankName == <<" ">>

Frames ==
    {[action |-> "send message", message |-> MessageText]}
    \cup {[action |-> a, username |-> u] :
            a \in {"kick user", "ban user"}, u \in {UserName, GuestTName}}
    \cup {[action |-> "change room access type", access_type |-> a] : a \in AccessTypes}
    \cup {[action |-> "get info"], [action |-> "get participants"]}
    \cup {[action |-> a] : a \in {"send message", "kick user", "ban user",
                                   "change room access type"}}
    \cup {[action |-> "change room name", name |-> n] : n \in {NewName, BlankName, <<>>}}
    \cup {[action |-> "change room name"]}
    \cup {NOT_AN_OBJECT}

InitChat ==
    /\ rooms = [n \in ChatRoomNumbers |->
                  [name |-> RoomName, owner |-> Account(OwnerName), access_type |-> PUBLIC,
                   banned_users |-> {}, invited_users |-> {}]]
    /\ participants = [k \in ChatRoomNumbers \X ChatUsernames |-> 0]
    /\ groups = [n \in ChatRoomNumbers |-> {}]
    /\ session = [s \in Sessions |-> NoSession]
    /\ queue = [s \in Sessions |-> <<>>]
    /\ inbox = [s \in Sessions |-> <<>>]
    /\ sent = [s \in Sessions |-> <<>>]
    /\ close_code = [s \in Sessions |-> None]
    /\ ev = NoEval

ChatNext ==
    \E s \in Sessions :
        \/ \E scope \in ChatScopes(s) : Connect(s, scope)
        \/ AddGet(s)
        \/ AddCreate(s)
        \/ Accept(s)
        \/ GroupAdd(s)
        \/ Disconnect(s)
        \/ RemoveParticipant(s)
        \/ \E content \in Frames : ClientSend(s, content)
        \/ ReceiveSendMessage(s)
        \/ ReceiveKickUser(s)
        \/ ReceiveBanUser(s)
        \/ ChatMessage(s)
        \/ ChatKick(s)
        \/ KickRemove(s)
        \/ ChatBan(s)
        \/ BanDiscard(s)
        \/ BanRemove(s)
        \/ ReceiveChangeAccessType(s)
        \/ ReceiveChangeRoomName(s)
        \/ ChatRoomNameChange(s)
        \/ ReceiveGetInfo(s)
        \/ ReceiveNoBranch(s)
        \/ ReceiveRaises(s)
        \/ ChatAccessTypeChange(s)
        \/ AccessRemove(s)
        \/ AccessInfo(s)

SpecChat == InitChat /\ [][ChatNext]_vars

\* Events that wait on a channel: the owner and the registered user are in the
\* first room, and the clients send up to MaxBacklog messages, kicks and bans of
\* the user, so that an event can be waiting for a session when it is closed.
BacklogScopes(s) ==
    IF s = 1
    THEN {[user |-> Account(OwnerName), guest |-> <<>>, room_number |-> RoomNumber]}
    ELSE {[user |-> Account(UserName), guest |-> <<>>, room_number |-> RoomNumber]}

BacklogFrames ==
    {[action |-> "send message", message |-> MessageText]}
    \cup {[action |-> a, username |-> UserName] : a \in {"kick user", "ban user"}}

BacklogNext ==
    \E s \in Sessions :
        \/ \E scope \in BacklogScopes(s) : Connect(s, scope)
        \/ AddGet(s)
        \/ AddCreate(s)
        \/ Accept(s)
        \/ GroupAdd(s)
        \/ Disconnect(s)
        \/ RemoveParticipant(s)
        \/ \E content \in BacklogFrames : ClientSendWithin(s, content, MaxBacklog)
        \/ ReceiveSendMessage(s)
        \/ ReceiveKickUser(s)
        \/ ReceiveBanUser(s)
        \/ ChatMessage(s)
        \/ ChatKick(s)
        \/ KickRemove(s)
        \/ ChatBan(s)
        \/ BanDiscard(s)
        \/ BanRemove(s)

SpecBacklog == InitChat /\ [][BacklogNext]_vars

-----------------------------------------------------------------------------
(* remove_participant called directly, on any RoomParticipant table the unique *)
(* constraint allows.                                                          *)

NoLeave == [room |-> None, username |-> <<>>, result |-> FALSE, calls |-> 0, again |-> FALSE]

InitLeave ==
    /\ rooms = [n \in ChatRoomNumbers |->
                  [name |-> RoomName, owner |-> Account(OwnerName), access_type |-> PUBLIC,
                   banned_users |-> {}, invited_users |-> {}]]
    /\ participants \in [ChatRoomNumbers \X ChatUsernames -> {0, 1}]
    /\ groups = [n \in ChatRoomNumbers |-> {}]
    /\ session = [s \in Sessions |-> NoSession]
    /\ queue = [s \in Sessions |-> <<>>]
    /\ inbox = [s \in Sessions |-> <<>>]
    /\ sent = [s \in Sessions |-> <<>>]
    /\ close_code = [s \in Sessions |-> None]
    /\ ev = NoLeave

\* remove_participant(room, username): again records that the call repeats the
\* one before it.
LeaveCall(room, username) ==
    /\ ev.calls < MaxCalls
    /\ participants' = remove_participant(participants, room, username)
    /\ ev' = [room |-> room, username |-> username,
              result |-> deleted_any(participants, room, username),
              calls |-> ev.calls + 1,
              again |-> ev.calls > 0 /\ ev.room = room /\ ev.username = username]
    /\ UNCHANGED <<rooms, groups, session, queue, inbox, sent, close_code>>

LeaveNext == \E room \in ChatRoomNumbers, username \in ChatUsernames : LeaveCall(room, username)

SpecLeave == InitLeave /\ [][LeaveNext]_vars

-----------------------------------------------------------------------------
(* extract_username called directly, on any query string, and the username *)
(* connect resolves with it.                                               *)

\* A query string is a sequence of pieces: the text "guest", single characters
\* and percent-escapes, an escape being one piece.
QueryPieces == {"guest", "=", "&", "t", "%26", "%FF"}

MaxPieces == 4

QueryStrings == UNION {[1..k -> QueryPieces] : k \in 0..MaxPieces}

\* U+FFFD, which decoding with errors="replace" writes for bytes that are not UTF-8.
REPLACEMENT_CHARACTER == "U+FFFD"

\* urllib.parse.unquote(string, encoding="utf-8", errors="replace"): "%26" is "&";
\* "%FF" is the byte 0xFF, which is not UTF-8 and is replaced, not refused.
unquote(string) ==
    [i \in 1..Len(string) |->
        IF string[i] = "%26" THEN "&"
        ELSE IF string[i] = "%FF" THEN REPLACEMENT_CHARACTER
        ELSE string[i]]

\* urllib.parse.parse_qsl, its loop over the fields: a field without "=" or with
\* a blank value is skipped; name and value are unquoted.
RECURSIVE parse_fields(_)
parse_fields(name_values) ==
    IF name_values = <<>> THEN <<>>
    ELSE LET name_value == Head(name_values)
             eq == {i \in 1..Len(name_value) : name_value[i] = "="}
             r == parse_fields(Tail(name_values))
         IN IF eq = {} THEN r
            ELSE LET k == CHOOSE i \in eq : \A j \in eq : i <= j
                     name == SubSeq(name_value, 1, k - 1)
                     found == SubSeq(name_value, k + 1, Len(name_value))
                 IN IF found = <<>> THEN r
                    ELSE <<<<unquote(name), unquote(found)>>>> \o r

\* urllib.parse.parse_qsl(qs): the fields are separated by "&".
parse_qsl(qs) == parse_fields(split(qs, <<"&">>))

\* parse_qs(unquote(query_string)).get("guest") (line 15): the values of the
\* fields named guest, in their order; no value stands for None.
guest_values(query_string) ==
    LET fields == SelectSeq(parse_qsl(unquote(query_string)),
                            LAMBDA nv : nv[1] = <<"guest">>)
    IN [i \in 1..Len(fields) |-> fields[i][2]]

\* The exception line 15 raises: None[0] is a TypeError.
raises(query_string) ==
    IF guest_values(query_string) = <<>> THEN "TypeError" ELSE None

\* except (TypeError, UnicodeError), line 17.
CaughtErrors == {"TypeError", "UnicodeError"}

\* The characters of a sequence of pieces.
RECURSIVE text(_)
text(pieces) ==
    IF pieces = <<>> THEN <<>>
    ELSE (IF Head(pieces) = "guest" THEN <<"g", "u", "e", "s", "t">> ELSE <<Head(pieces)>>)
         \o text(Tail(pieces))

\* extract_username(query_string), lines 14-18.
extract_username_from(query_string) ==
    IF raises(query_string) \in CaughtErrors THEN <<>>
    ELSE extract_username(text(guest_values(query_string)[1]))

\* The exception that leaves extract_username, None when it returns.
escapes(query_string) ==
    IF raises(query_string) \in CaughtErrors THEN None ELSE raises(query_string)

NoResolve ==
    [user |-> AnonymousUser, query_string |-> <<>>, called |-> FALSE,
     username |-> <<>>, error |-> None]

InitResolve ==
    /\ rooms = [n \in RoomNumbers |->
                  [name |-> RoomName, owner |-> Account(OwnerName), access_type |-> PUBLIC,
                   banned_users |-> {}, invited_users |-> {}]]
    /\ participants = [k \in RoomNumbers \X Usernames |-> 0]
    /\ groups = [n \in RoomNumbers |-> {}]
    /\ session = [s \in Sessions |-> NoSession]
    /\ queue = [s \in Sessions |-> <<>>]
    /\ inbox = [s \in Sessions |-> <<>>]
    /\ sent = [s \in Sessions |-> <<>>]
    /\ close_code = [s \in Sessions |-> None]
    /\ \E u \in Accounts \cup {AnonymousUser}, q \in QueryStrings :
          ev = [NoResolve EXCEPT !.user = u, !.query_string = q]

\* ChatConsumer.connect, lines 166-170, with the scope's user and query string.
ResolveCall ==
    /\ ~ev.called
    /\ ev' = [ev EXCEPT !.called = TRUE,
                        !.username = IF ev.user.is_authenticated THEN ev.user.username
                                     ELSE extract_username_from(ev.query_string),
                        !.error = IF ev.user.is_authenticated THEN None
                                  ELSE escapes(ev.query_string)]
    /\ UNCHANGED <<rooms, participants, groups, session, queue, inbox, sent, close_code>>

SpecResolve == InitResolve /\ [][ResolveCall]_vars

-----------------------------------------------------------------------------
(* RoomManager.get_access_status called directly, as chatter/tests/test_rooms.py *)
(* does: any username string with any caller and any room configuration.       *)

EvalAlphabet == {"a", " ", "@"}

\* The strings over EvalAlphabet of at most n characters.
StringsUpTo(n) == UNION {[1..k -> EvalAlphabet] : k \in 0..n}

\* Usernames of registered accounts (letters, digits and @/./+/-/_).
EvalAccountNames == {<<"a">>, <<"a", "@">>}

InitEval ==
    /\ rooms = [n \in RoomNumbers |->
                  [name |-> RoomName, owner |-> Account(OwnerName), access_type |-> PUBLIC,
                   banned_users |-> {}, invited_users |-> {}]]
    /\ participants = [k \in RoomNumbers \X Usernames |-> 0]
    /\ groups = [n \in RoomNumbers |-> {}]
    /\ session = [s \in Sessions |-> NoSession]
    /\ queue = [s \in Sessions |-> <<>>]
    /\ inbox = [s \in Sessions |-> <<>>]
    /\ sent = [s \in Sessions |-> <<>>]
    /\ close_code = [s \in Sessions |-> None]
    /\ \E a \in AccessTypes, b \in SUBSET EvalAccountNames, i \in SUBSET EvalAccountNames,
          n \in {RoomNumber, UnknownNumber}, auth \in BOOLEAN, u \in StringsUpTo(MaxLen) :
          ev = [db |-> [r \in RoomNumbers |->
                          [name |-> RoomName, owner |-> Account(OwnerName), access_type |-> a,
                           banned_users |-> b, invited_users |-> i]],
                room_number |-> n, is_authenticated |-> auth, username |-> u,
                called |-> FALSE, result |-> <<None, None>>]

\* Room.objects.get_access_status(room_number, user, username)
EvalCall ==
    /\ ~ev.called
    /\ ev' = [ev EXCEPT !.called = TRUE,
                        !.result = get_access_status(ev.db, ev.room_number,
                                                     ev.is_authenticated, ev.username)]
    /\ UNCHANGED <<rooms, participants, groups, session, queue, inbox, sent, close_code>>

SpecEval == InitEval /\ [][EvalCall]_vars

\* The call's inputs and outputs, once it has returned.
EvalRoomExists == ev.room_number \in DOMAIN ev.db
EvalRoom == ev.db[RoomNumber]
EvalStatus == ev.result[2]

-----------------------------------------------------------------------------
(* Claims about the access evaluator, under SpecEval *)

HasWhitespace(u) == \E i \in 1..Len(u) : u[i] = " "

\* The decisions in the order of the table, each with its condition.
DecisionTable ==
    << [decision |-> NOT_FOUND, holds |-> ~EvalRoomExists],
       [decision |-> BAD_USERNAME,
        holds |-> ~ev.is_authenticated /\ ~validate_unicode_slug(ev.username)],
       [decision |-> CONFIRM_REQUIRED,
        holds |-> EvalRoom.access_type = CONFIRMED /\ ~ev.is_authenticated],
       [decision |-> BANNED, holds |-> ev.username \in EvalRoom.banned_users],
       [decision |-> NOT_INVITED,
        holds |-> EvalRoom.access_type = PRIVATE /\ ev.username \notin EvalRoom.invited_users],
       [decision |-> ALLOWED, holds |-> TRUE] >>

FirstDecision ==
    LET i == CHOOSE i \in 1..Len(DecisionTable) :
                 /\ DecisionTable[i].holds
                 /\ \A j \in 1..(i - 1) : ~DecisionTable[j].holds
    IN DecisionTable[i].decision

\* C5: the evaluator returns the first decision whose condition holds, in the
\* order NotFound, BadUsername, ConfirmRequired, Banned, NotInvited, Allowed, and
\* returns the room for every decision but NotFound, where it returns None.
C5_DecisionOrder ==
    ev.called =>
        /\ EvalStatus = FirstDecision
        /\ ev.result[1] = (IF FirstDecision = NOT_FOUND THEN None ELSE ev.room_number)

\* A banned caller of a private room who is not invited either gets BANNED.
C5_Witness ==
    /\ ev.called /\ EvalRoomExists
    /\ EvalRoom.access_type = PRIVATE
    /\ ev.username \in EvalRoom.banned_users
    /\ ev.username \notin EvalRoom.invited_users
    /\ ev.result = <<RoomNumber, BANNED>>

\* C6 as stated: in a Public room a username that is not banned is Allowed,
\* whatever the authentication state.
C6_PublicAllowed_Original ==
    (/\ ev.called /\ EvalRoomExists
     /\ EvalRoom.access_type = PUBLIC
     /\ ev.username \notin EvalRoom.banned_users)
    => EvalStatus = ALLOWED

\* C6 amended: in a Public room a username that is not banned is Allowed for a
\* logged-in caller and for a caller that is not logged in whose username is a
\* valid slug; a caller that is not logged in with an invalid username gets BadUsername.
C6_PublicAllowed ==
    (/\ ev.called /\ EvalRoomExists
     /\ EvalRoom.access_type = PUBLIC
     /\ ev.username \notin EvalRoom.banned_users)
    => EvalStatus = (IF ev.is_authenticated \/ validate_unicode_slug(ev.username)
                     THEN ALLOWED ELSE BAD_USERNAME)

\* A guest with a valid username is allowed into a Public room.
C6_Witness ==
    /\ ev.called /\ EvalRoomExists
    /\ EvalRoom.access_type = PUBLIC
    /\ ~ev.is_authenticated
    /\ ev.username \notin EvalRoom.banned_users
    /\ EvalStatus = ALLOWED

\* C7: for a room that exists, a caller that is not logged in with an empty or
\* whitespace-containing username gets BadUsername, whatever the access type, the
\* banned set and the invited set.
C7_BadUsernameFirst ==
    (/\ ev.called /\ EvalRoomExists
     /\ ~ev.is_authenticated
     /\ (ev.username = <<>> \/ HasWhitespace(ev.username)))
    => ev.result = <<ev.room_number, BAD_USERNAME>>

\* A guest with a whitespace username at a confirmed-only room gets BadUsername,
\* not ConfirmRequired.
C7_Witness ==
    /\ ev.called /\ EvalRoomExists
    /\ ~ev.is_authenticated
    /\ HasWhitespace(ev.username)
    /\ EvalRoom.access_type = CONFIRMED
    /\ EvalStatus = BAD_USERNAME

\* C8: a logged-in caller never gets BadUsername, whatever username is passed.
C8_AuthenticatedNeverBadUsername ==
    (ev.called /\ ev.is_authenticated) => EvalStatus # BAD_USERNAME

\* A logged-in caller passing " " is allowed.
C8_Witness ==
    /\ ev.called /\ ev.is_authenticated
    /\ ev.username = <<" ">>
    /\ EvalStatus = ALLOWED

\* C9 as stated: in a Private room a caller whose username is banned gets Banned,
\* invited or not.
C9_BannedBeforeNotInvited_Original ==
    (/\ ev.called /\ EvalRoomExists
     /\ EvalRoom.access_type = PRIVATE
     /\ ev.username \in EvalRoom.banned_users)
    => EvalStatus = BANNED

\* C9 amended: in a Private room a caller whose username is banned gets Banned,
\* invited or not, and never NotInvited; only a caller that is not logged in whose
\* username fails the slug check gets BadUsername instead.
C9_BannedBeforeNotInvited ==
    (/\ ev.called /\ EvalRoomExists
     /\ EvalRoom.access_type = PRIVATE
     /\ ev.username \in EvalRoom.banned_users)
    => EvalStatus = (IF ~ev.is_authenticated /\ ~validate_unicode_slug(ev.username)
                     THEN BAD_USERNAME ELSE BANNED)

\* A caller both banned and invited gets Banned; so does one banned and not invited.
C9_Witness ==
    /\ ev.called /\ EvalRoomExists
    /\ EvalRoom.access_type = PRIVATE
    /\ ev.username \in EvalRoom.banned_users
    /\ ev.username \notin EvalRoom.invited_users
    /\ ev.is_authenticated
    /\ EvalStatus = BANNED

-----------------------------------------------------------------------------
(* Claims about the session protocol *)

\* The session has joined and has not been torn down.
Active(s) == session[s].pc = "active"

\* add_participant returned True to the session.
AddedTrue(s) == session[s].pc \in {"accept", "group_add", "active"}

\* add_participant returned False to the session.
AddedFalse(s) == session[s].access_status = ALREADY_JOINED

\* The join attempt ended in a decision other than ALLOWED or in ALREADY_JOINED.
Rejected(s) == session[s].access_status \notin {None, ALLOWED}

\* The sessions whose add_participant call is for (room, username).
Callers(room, username) ==
    {s \in Sessions : /\ session[s].access_status \in {ALLOWED, ALREADY_JOINED}
                      /\ session[s].room = room
                      /\ session[s].username = username}

\* C1: at most one session is Active under a (room, username) pair.
C1_OneActivePerUsername ==
    \A s, t \in Sessions :
        (/\ s # t /\ Active(s) /\ Active(t)
         /\ session[s].room = session[t].room)
        => session[s].username # session[t].username

\* C2: of the add_participant calls racing for one (room, username) that is
\* absent from the table, exactly one returns True and every other returns False:
\* as soon as one call has returned, exactly one call has returned True.
C2_ExactlyOneTrue ==
    \A room \in RoomNumbers, username \in Usernames :
        LET returned == {s \in Callers(room, username) : AddedTrue(s) \/ AddedFalse(s)}
        IN returned # {} =>
              Cardinality({s \in returned : AddedTrue(s)}) = 1

\* Two calls for the same pair both passed the lookup with the row absent; one has
\* created the row and returned True, the other is about to attempt its INSERT.
C2_Witness ==
    \E s, t \in Sessions :
        /\ s # t
        /\ t \in Callers(session[s].room, session[s].username)
        /\ AddedTrue(s)
        /\ session[t].pc = "add_create"
        /\ participants[<<session[s].room, session[s].username>>] = 1

\* No session is in the middle of its join or of its teardown.
Quiescent == \A s \in Sessions : session[s].pc \in {"idle", "active", "closed"}

\* C3: whenever no session is joining or tearing down, the usernames listed for a
\* room are the usernames of its Active sessions.
C3_RegistryMatchesSessions ==
    Quiescent =>
        \A room \in RoomNumbers :
            get_participants(participants, room) =
                {session[s].username : s \in {t \in Sessions : Active(t) /\ session[t].room = room}}

\* C4: a step of a connection whose join attempt is rejected, the rejection itself
\* and its later teardown included, changes neither the RoomParticipant table nor
\* the groups, and never makes the session Active.
C4_RejectedChangesNothing ==
    [][\A s \in Sessions :
          ((Rejected(s) \/ Rejected(s)') /\ session'[s] # session[s])
          => /\ participants' = participants
             /\ groups' = groups
             /\ ~Active(s)']_vars

\* C10: the evaluation made at connect never answers ALLOWED to a caller that is
\* not logged in when the room is Private, so no guest joins a Private room.
C10_PrivateNeverAdmitsGuest ==
    [][\A s \in Sessions :
          (/\ session[s].pc = "idle" /\ session'[s].pc # "idle"
           /\ ~session'[s].user.is_authenticated
           /\ session'[s].room # None
           /\ rooms[session'[s].room_number].access_type = PRIVATE)
          => session'[s].access_status # ALLOWED]_vars

-----------------------------------------------------------------------------
(* Close codes and the outcome of a join *)

\* The close code the client is to read each failed outcome from.
CloseCodeOf(status) ==
    CASE status = NOT_FOUND -> "4001"
      [] status = BAD_USERNAME -> "4002"
      [] status = CONFIRM_REQUIRED -> "4003"
      [] status = NOT_INVITED -> "4004"
      [] status = BANNED -> "4005"
      [] status = ALREADY_JOINED -> "4006"

\* C11: every failed join closes the connection with the close code of its
\* outcome: 4001 not found, 4002 bad username, 4003 confirm required, 4004 not
\* invited, 4005 banned, and 4006 for a username that is already joined.
C11_CloseCodeIdentifiesOutcome ==
    \A s \in Sessions :
        Rejected(s) => close_code[s] = CloseCodeOf(session[s].access_status)

\* C12: a caller that is ALLOWED and whose add_participant returned True is sent
\* "joined successfully" with the username it resolved to (the account's username,
\* or "guest_" and the guest name), and when its join step completes the username
\* is listed among the room's participants and the session is in the room's group.
C12_JoinedListedSubscribed ==
    [][\A s \in Sessions :
          /\ (session[s].pc = "accept" /\ session'[s].pc = "group_add") =>
                sent'[s] = <<[update |-> "joined successfully",
                              joined_as |-> IF session[s].user.is_authenticated
                                            THEN session[s].user.username
                                            ELSE GUEST_PREFIX \o session[s].guest]>>
          /\ (session[s].pc = "group_add" /\ session'[s].pc = "active") =>
                /\ session[s].username \in get_participants(participants', session[s].room)
                /\ s \in groups'[session[s].room_number]]_vars

-----------------------------------------------------------------------------
(* Leaving a room *)

\* add_participant returned True to the session: it inserted its registry entry.
WasAccepted(s) ==
    /\ session[s].access_status = ALLOWED
    /\ session[s].pc \notin {"idle", "add_get", "add_create"}

\* The session was accepted and its connection is over: the server has closed it
\* from a kick, ban or access-change handler, or the consumer has stopped.
Closed(s) ==
    /\ WasAccepted(s)
    /\ close_code[s] # None \/ session[s].pc \in {"closed", "stopped"}

\* The session was accepted and its connection is not over.
Open(s) == WasAccepted(s) /\ ~Closed(s)

\* The session was accepted and has not finished a teardown: none of its handlers
\* has closed it and its disconnect() has not completed.
Holding(s) ==
    /\ WasAccepted(s)
    /\ close_code[s] = None
    /\ session[s].pc # "closed"

\* C13: whenever a session that was Active becomes Closed, by the client or the
\* transport closing, by a kick, a ban or an access-change eviction, it is out of
\* the room's group and its (room, username) entry is out of the registry; and
\* every entry of the registry belongs to a session whose connection is not over.
C13_CloseUnsubscribesAndRemoves ==
    [][/\ \A s \in Sessions :
             (~Closed(s) /\ Closed(s)') =>
                /\ s \notin groups'[session[s].room_number]
                /\ participants'[<<session[s].room, session[s].username>>] = 0
       /\ \A k \in DOMAIN participants' :
             participants'[k] > 0 =>
                \E s \in Sessions : /\ Open(s)'
                                    /\ session'[s].room = k[1]
                                    /\ session'[s].username = k[2]]_vars

\* C14: a connection is answered ALREADY_JOINED only while another session that
\* inserted the same (room, username) has not completed its teardown; once the
\* holder has disconnected and been torn down, a connection that resolves to the
\* same username and is ALLOWED joins.
C14_RejoinAfterTeardown ==
    [][\A s \in Sessions :
          (session[s].access_status # ALREADY_JOINED
           /\ session'[s].access_status = ALREADY_JOINED) =>
             \E t \in Sessions \ {s} : /\ Holding(t)
                                       /\ session[t].room = session[s].room
                                       /\ session[t].username = session[s].username]_vars

\* The user's first session has stopped and a second session of the user is Active.
C14_Witness ==
    \E s, t \in Sessions :
        /\ s # t
        /\ session[t].pc = "closed" /\ WasAccepted(t)
        /\ session[s].pc = "active" /\ session[s].user.is_authenticated
        /\ session[s].room = session[t].room
        /\ session[s].username = session[t].username
        /\ session[s].username \in get_participants(participants, session[s].room)

-----------------------------------------------------------------------------
(* Kick and ban *)

\* Session s handles a frame of the given action in this step.
Receives(s, action) ==
    /\ inbox[s] # <<>>
    /\ is_object(inbox[s][1])
    /\ action_of(inbox[s][1]) = action
    /\ inbox'[s] = <<>>

\* C15: when the owner kicks a username that is listed among the room's
\* participants, the kick reaches the session that holds the username, also one
\* that has inserted its registry entry and not yet joined the group; the session
\* is told "kicked you" and closed, and the username leaves the list, so that it
\* can be joined with again.
C15_KickRemovesListedUser ==
    [][/\ \A o, t \in Sessions :
             (/\ Receives(o, "kick user")
              /\ session[o].is_owner
              /\ username_of(inbox[o][1]) \in get_participants(participants, session[o].room)
              /\ session[t].pc \in {"accept", "group_add", "active"}
              /\ session[t].room = session[o].room
              /\ session[t].username = username_of(inbox[o][1])) =>
                 queue'[t] = Append(queue[t], [type |-> "chat_kick",
                                               username |-> session[t].username])
       /\ \A t \in Sessions :
             (session[t].pc = "kick_remove" /\ session'[t].pc = "closing") =>
                 /\ sent'[t] = <<[update |-> "kicked you"]>>
                 /\ close_code'[t] # None
                 /\ session[t].username \notin get_participants(participants', session[t].room)]_vars

\* Active session s dispatches the event at the head of its channel in this step.
Handles(s, type) ==
    /\ session[s].pc = "active"
    /\ queue[s] # <<>>
    /\ Head(queue[s]).type = type
    /\ queue'[s] = Tail(queue[s])

\* The update a session that is not the target sends for a kick or ban event.
OtherUpdate(type) == IF type = "chat_kick" THEN "user kicked" ELSE "user banned"

\* C16: a kick or ban event closes only the session whose username is the target.
\* A session with another username that handles the event stays Active, keeps its
\* registry entry and its subscription and is sent "user kicked" or "user banned"
\* with the target's username; and the steps that close the target touch no other
\* session, no other subscription and no other username's registry entry.
C16_KickBanClosesOnlyTarget ==
    [][\A s \in Sessions : \A type \in {"chat_kick", "chat_ban"} :
          /\ (Handles(s, type) /\ Head(queue[s]).username # session[s].username) =>
                /\ session'[s] = session[s]
                /\ sent'[s] = <<[update |-> OtherUpdate(type),
                                 username |-> Head(queue[s]).username]>>
                /\ UNCHANGED <<rooms, participants, groups, close_code>>
          /\ (Handles(s, type) /\ session'[s].pc # "active") =>
                Head(queue[s]).username = session[s].username
          /\ (session[s].pc \in {"active", "kick_remove", "ban_discard", "ban_remove"}
              /\ session'[s].pc \in {"kick_remove", "ban_discard", "ban_remove", "closing"}
              /\ session'[s].pc # session[s].pc) =>
                /\ \A o \in Sessions \ {s} :
                      /\ session'[o] = session[o]
                      /\ close_code'[o] = close_code[o]
                      /\ \A n \in DOMAIN groups : o \in groups[n] => o \in groups'[n]
                /\ \A k \in DOMAIN participants :
                      participants'[k] # participants[k] =>
                         k = <<session[s].room, session[s].username>>]_vars

\* The user was kicked and closed, and the owner, told "user kicked", is still
\* Active, listed and subscribed.
C16_Witness ==
    \E s, t \in Sessions :
        /\ session[t].pc = "closing" /\ sent[t] = <<[update |-> "kicked you"]>>
        /\ session[s].pc = "active"
        /\ sent[s] = <<[update |-> "user kicked", username |-> session[t].username]>>
        /\ s \in groups[session[s].room_number]
        /\ session[s].username \in get_participants(participants, session[s].room)

\* A kick or ban event is put on some channel in this step.
PublishesKickOrBan ==
    \E t \in Sessions :
        /\ Len(queue'[t]) > Len(queue[t])
        /\ queue'[t][Len(queue'[t])].type \in {"chat_kick", "chat_ban"}

\* C17: a kick or ban event is published only by a session whose owner flag is
\* true, and the flag is true only for the session of the room's owner account,
\* never for a guest; a kick or ban request from any other session publishes
\* nothing and changes no state.
C17_OnlyOwnerPublishesKickBan ==
    [][/\ PublishesKickOrBan =>
             \E o \in Sessions :
                 /\ Receives(o, "kick user") \/ Receives(o, "ban user")
                 /\ session[o].is_owner
       /\ \A s \in Sessions :
             session'[s].is_owner =>
                 /\ session'[s].user.is_authenticated
                 /\ rooms'[session'[s].room].owner = session'[s].user
       /\ \A s \in Sessions :
             ((Receives(s, "kick user") \/ Receives(s, "ban user"))
              /\ ~session[s].is_owner) =>
                 /\ UNCHANGED <<rooms, participants, groups, queue, close_code>>
                 /\ sent'[s] = <<>>
                 /\ session' = [session EXCEPT ![s].content = inbox[s]]]_vars

\* A guest's kick request has been handled: nothing is on any channel and the
\* user it named is still Active, listed and subscribed.
C17_Witness ==
    \E s, t \in Sessions :
        /\ ~session[s].user.is_authenticated /\ ~session[s].is_owner
        /\ session[s].content = <<[action |-> "kick user", username |-> UserName]>>
        /\ \A o \in Sessions : queue[o] = <<>>
        /\ session[t].pc = "active" /\ session[t].username = UserName
        /\ t \in groups[session[t].room_number]
        /\ UserName \in get_participants(participants, session[t].room)

\* C18: when the owner bans a joined authenticated participant, the ban reaches
\* the participant's session; the account is in the room's banned set before the
\* session's registry entry is released; the session is sent "banned you" and
\* closed; and every later connection of the account is rejected BANNED and closed
\* with the close code 4005.
C18_BanClosesAndKeepsOut ==
    [][/\ \A o, t \in Sessions :
             (/\ Receives(o, "ban user")
              /\ session[o].is_owner
              /\ session[t].pc = "active"
              /\ session[t].user.is_authenticated
              /\ session[t].room = session[o].room
              /\ session[t].username = username_of(inbox[o][1])) =>
                 queue'[t] = Append(queue[t], [type |-> "chat_ban",
                                               username |-> session[t].username])
       /\ \A t \in Sessions :
             (session[t].pc = "ban_remove" /\ session'[t].pc = "closing"
              /\ session[t].user.is_authenticated) =>
                 /\ is_banned(rooms[session[t].room], session[t].user.username)
                 /\ participants[<<session[t].room, session[t].username>>] > 0 =>
                       participants'[<<session[t].room, session[t].username>>] = 0
                 /\ sent'[t] = <<[update |-> "banned you"]>>
                 /\ close_code'[t] # None
       /\ \A s \in Sessions :
             (/\ session[s].pc = "idle" /\ session'[s].pc # "idle"
              /\ session'[s].user.is_authenticated
              /\ session'[s].room_number \in DOMAIN rooms
              /\ is_banned(rooms[session'[s].room_number], session'[s].user.username)) =>
                 /\ session'[s].access_status = BANNED
                 /\ session'[s].pc = "closing"
                 /\ close_code'[s] = "4005"]_vars

\* The username begins with "guest_".
GuestPrefixed(username) ==
    /\ Len(username) >= Len(GUEST_PREFIX)
    /\ \A i \in 1..Len(GUEST_PREFIX) : username[i] = GUEST_PREFIX[i]

\* C19: a ban request that names a guest-prefixed username is ignored entirely,
\* whoever sends it: no event is published, the banned set, the registry and the
\* groups are unchanged, and every session, the guest's included, stays as it was.
C19_BanOfGuestIgnored ==
    [][\A s \in Sessions :
          (Receives(s, "ban user") /\ GuestPrefixed(username_of(inbox[s][1]))) =>
             /\ UNCHANGED <<rooms, participants, groups, queue, close_code>>
             /\ sent' = [sent EXCEPT ![s] = <<>>]
             /\ session' = [session EXCEPT ![s].content = inbox[s]]]_vars

\* The owner's ban of "guest_t" has been handled: the guest is Active, subscribed
\* and listed, nothing is on any channel and nobody is banned.
C19_Witness ==
    \E o, t \in Sessions :
        /\ session[o].is_owner
        /\ session[o].content = <<[action |-> "ban user", username |-> GuestTName]>>
        /\ \A s \in Sessions : queue[s] = <<>>
        /\ session[t].pc = "active" /\ ~session[t].user.is_authenticated
        /\ session[t].username = GuestTName
        /\ session[t].room = session[o].room
        /\ t \in groups[session[t].room_number]
        /\ GuestTName \in get_participants(participants, session[t].room)
        /\ rooms[session[t].room].banned_users = {}

-----------------------------------------------------------------------------
(* Messages *)

\* C20: a "send message" frame handled by an Active session puts exactly one
\* chat_message event, with the frame's text and the sender's username, on the
\* channel of every session subscribed to the sender's room at that moment, the
\* sender included, and on no other channel, so on none of another room; and a
\* session that dispatches the event sends its client exactly one "new message"
\* frame with that text and username and changes nothing else.
C20_MessageFanOut ==
    [][\A s \in Sessions :
          /\ (Receives(s, "send message") /\ session[s].pc = "active") =>
                /\ s \in groups[session[s].room_number]
                /\ \A t \in Sessions :
                      /\ t \in groups[session[s].room_number] =>
                            queue'[t] = Append(queue[t],
                                               [type |-> "chat_message",
                                                message |-> message_of(inbox[s][1]),
                                                username |-> session[s].username])
                      /\ t \notin groups[session[s].room_number] => queue'[t] = queue[t]
                      /\ session[t].room_number # session[s].room_number =>
                            queue'[t] = queue[t]
          /\ Handles(s, "chat_message") =>
                /\ sent'[s] = <<[update |-> "new message",
                                 message |-> Head(queue[s]).message,
                                 username |-> Head(queue[s]).username]>>
                /\ \A t \in Sessions \ {s} : sent'[t] = sent[t] /\ queue'[t] = queue[t]
                /\ UNCHANGED <<rooms, participants, groups, session, inbox, close_code>>]_vars

\* The owner's message has been sent to the owner and to the other session of the
\* room, and the guest in the other room has been sent nothing since it joined.
C20_Witness ==
    \E s, t, x \in Sessions :
        /\ s # t
        /\ session[s].pc = "active" /\ session[t].pc = "active" /\ session[x].pc = "active"
        /\ session[s].content = <<[action |-> "send message", message |-> MessageText]>>
        /\ session[t].room_number = session[s].room_number
        /\ session[x].room_number # session[s].room_number
        /\ sent[s] = <<[update |-> "new message", message |-> MessageText,
                        username |-> session[s].username]>>
        /\ sent[t] = sent[s]
        /\ sent[x] = <<joined_successfully(session[x].username)>>
        /\ queue[x] = <<>>

-----------------------------------------------------------------------------
(* Requests answered to the requester, frames that ask for nothing *)

\* C21: an Active session that handles a "get participants" frame sends its client,
\* and nobody else, the usernames of the room's registry entries in ascending
\* order, and publishes nothing.
C21_GetParticipantsAnswered ==
    [][\A s \in Sessions :
          (Receives(s, "get participants") /\ session[s].pc = "active") =>
             /\ sent'[s] = <<order_by(get_participants(participants, session[s].room))>>
             /\ \A t \in Sessions \ {s} : sent'[t] = sent[t]
             /\ queue' = queue]_vars

\* The event a "change room access type" frame of session o publishes.
AccessChangeEvent(o) ==
    LET db == [rooms EXCEPT ![session[o].room].access_type = access_type_of(inbox[o][1])]
    IN [type |-> "chat_access_type_change",
        access_type |-> access_type_of(inbox[o][1]),
        kick |-> join(to_kick_for(db, participants, session[o].room,
                                  access_type_of(inbox[o][1])),
                      KICK_SEPARATOR)]

\* The event's kick list holds the username.
InKickList(event, username) ==
    LET to_kick == split(event.kick, KICK_SEPARATOR)
    IN \E i \in 1..Len(to_kick) : to_kick[i] = username

\* C22: when the access type is changed to CONFIRMED, every guest-prefixed
\* username listed in the room belongs to a session that is handed the event with
\* the username in its kick list; a session that dispatches such an event takes
\* the eviction branch, and the branch deletes its registry entry, tells the
\* client "kicked you because access change" and closes the connection.
C22_ConfirmedEvictsGuests ==
    [][/\ \A o \in Sessions :
             (/\ Receives(o, "change room access type")
              /\ access_type_of(inbox[o][1]) = CONFIRMED) =>
                 \A u \in get_participants(participants, session[o].room) :
                    GuestPrefixed(u) =>
                       \E t \in Sessions :
                          /\ session[t].room = session[o].room
                          /\ session[t].username = u
                          /\ queue'[t] = Append(queue[t], AccessChangeEvent(o))
                          /\ InKickList(AccessChangeEvent(o), u)
       /\ \A s \in Sessions :
             (/\ session[s].pc = "active"
              /\ queue[s] # <<>>
              /\ Head(queue[s]).type = "chat_access_type_change"
              /\ InKickList(Head(queue[s]), session[s].username)
              /\ session'[s].pc \in {"access_remove", "access_info"}) =>
                 /\ session'[s].pc = "access_remove"
                 /\ s \notin groups'[session[s].room_number]
       /\ \A s \in Sessions :
             (session[s].pc = "access_remove" /\ session'[s].pc = "closing"
              /\ close_code[s] = None) =>
                 /\ session[s].username \notin get_participants(participants', session[s].room)
                 /\ sent'[s] = <<[update |-> "kicked you because access change",
                                  access_type |-> Head(queue[s]).access_type]>>
                 /\ close_code'[s] # None]_vars

\* C23: remove_participant deletes the (room, username) row and returns True when
\* the row is there, and returns False and changes nothing when it is not; a call
\* that repeats the one before it returns False and leaves the table as the first
\* call left it; and no call touches a row of another room or username.
C23_LeaveIdempotent ==
    [][LET k == <<ev'.room, ev'.username>> IN
       /\ participants[k] > 0 => (ev'.result /\ participants'[k] = 0)
       /\ participants[k] = 0 => (~ev'.result /\ participants' = participants)
       /\ ev'.again => (~ev'.result /\ participants' = participants)
       /\ \A j \in DOMAIN participants : j # k => participants'[j] = participants[j]]_vars

\* A second call in a row has returned False while rows of others are in the table.
C23_Witness ==
    /\ ev.again /\ ~ev.result
    /\ \E j \in DOMAIN participants : j[1] = ev.room /\ participants[j] > 0
    /\ \E j \in DOMAIN participants : j[1] # ev.room /\ participants[j] > 0

\* The frame is not an object, or names no action, or lacks a field its action
\* needs, or carries an access type that is none of the three.
Malformed(content) ==
    \/ ~is_object(content)
    \/ action_of(content) \notin BranchActions \cup {"get participants"}
    \/ action_of(content) = "send message" /\ "message" \notin DOMAIN content
    \/ action_of(content) \in {"kick user", "ban user"} /\ "username" \notin DOMAIN content
    \/ action_of(content) = "change room access type"
          /\ access_type_of(content) \notin AccessTypes

\* C24: an Active session that handles a malformed frame stays Active, sends its
\* client nothing and publishes nothing, and the rooms, their banned sets and the
\* registry stay as they are.
C24_MalformedIgnored ==
    [][\A s \in Sessions :
          (/\ session[s].pc = "active"
           /\ inbox[s] # <<>>
           /\ Malformed(inbox[s][1])
           /\ inbox'[s] = <<>>) =>
              /\ session'[s].pc = "active"
              /\ sent'[s] = <<>>
              /\ queue' = queue
              /\ rooms' = rooms
              /\ participants' = participants
              /\ groups' = groups]_vars

-----------------------------------------------------------------------------
(* Guest usernames and account usernames *)

\* C25: the username of a caller that is not logged in and that the evaluator
\* allowed differs from the username of every account the User table can hold.
C25_GuestNeverCollides ==
    \A s \in Sessions :
       (/\ session[s].pc # "idle"
        /\ ~session[s].user.is_authenticated
        /\ session[s].access_status \in {ALLOWED, ALREADY_JOINED}) =>
           \A a \in Accounts :
              username_validator(a.username) => session[s].username # a.username

-----------------------------------------------------------------------------
(* Teardown and events in flight *)

\* Session s, which a kick, ban or eviction handler of its own has closed, takes a
\* step of the disconnect() that the transport's close of the connection runs.
SecondTeardownStep(s) ==
    /\ WasAccepted(s)
    /\ close_code[s] = NORMAL_CLOSURE
    /\ \/ session[s].pc = "closing" /\ session'[s].pc = "remove"
       \/ session[s].pc = "remove" /\ session'[s].pc = "closed"

\* C26: the disconnect() that runs for the transport's close of a connection that
\* a kick, ban or eviction handler has already torn down changes neither the
\* registry nor any group, also when another session has joined the room under
\* the same username in between.
C26_SecondTeardownNoOp ==
    [][\A s \in Sessions :
          SecondTeardownStep(s) => (participants' = participants /\ groups' = groups)]_vars

\* C27: the access decision holds at the moment the registry entry is inserted:
\* a session whose add_participant inserts its entry is one the room's state of
\* that moment allows, so that a change of the access type or a ban made after
\* the decision was taken, whose eviction list cannot name a session that has no
\* entry yet, is not slipped past.
C27_DecisionHoldsAtInsertion ==
    [][\A s \in Sessions :
          (session[s].pc = "add_create" /\ session'[s].pc = "accept") =>
             get_access_status(rooms, session[s].room_number,
                               session[s].user.is_authenticated,
                               session[s].username)[2] = ALLOWED]_vars

\* The positions inside the kick, ban and access-change handlers.
HandlerPcs == {"kick_remove", "ban_discard", "ban_remove", "access_remove", "access_info"}

\* Session s, which one of its handlers has already torn down and closed, takes a
\* step of a group event handler.
LateHandlerStep(s) ==
    /\ WasAccepted(s)
    /\ close_code[s] # None
    /\ \/ /\ session[s].pc = "closing"
          /\ queue[s] # <<>>
          /\ queue'[s] = Tail(queue[s]) \/ session'[s].pc \in HandlerPcs
       \/ /\ session[s].pc \in HandlerPcs
          /\ session'[s].pc # session[s].pc

\* C28: an event that was waiting on the channel of a session when the session
\* unsubscribed and was torn down is not delivered to it: no handler of the
\* session sends its client an update or changes the rooms, the registry or the
\* groups after the teardown.
C28_NoDeliveryAfterTeardown ==
    [][\A s \in Sessions :
          LateHandlerStep(s) =>
             /\ sent'[s] = <<>>
             /\ rooms' = rooms
             /\ participants' = participants
             /\ groups' = groups]_vars

-----------------------------------------------------------------------------
(* The order of a join and the life of a session *)

\* The client of session s has been sent "joined successfully" and its connection
\* is open.
Notified(s) ==
    /\ session[s].pc \in {"group_add", "active"}
    /\ close_code[s] = None

\* Session o publishes an event to its group in this step.
Publishes(o) ==
    /\ inbox[o] # <<>>
    /\ inbox'[o] = <<>>
    /\ Len(queue'[o]) > Len(queue[o])

\* C29: a session is in its room's group when its client is sent "joined
\* successfully", so an event published once the client has the notification is
\* put on the session's channel.
C29_SubscribedBeforeNotified ==
    [][/\ \A s \in Sessions :
             (session[s].pc = "accept" /\ session'[s].pc = "group_add") =>
                s \in groups'[session[s].room_number]
       /\ \A o, s \in Sessions :
             (Publishes(o) /\ Notified(s) /\ session[s].room = session[o].room) =>
                Len(queue'[s]) > Len(queue[s])]_vars

\* The state of the session state machine that session s is in. Connect resolves
\* the identity and takes the access decision in one step, so a session rejected
\* by the decision goes from Connecting to Closed in that step.
Phase(s) ==
    IF session[s].pc = "idle" THEN "Connecting"
    ELSE IF session[s].pc \in {"add_get", "add_create", "accept", "group_add"} THEN "Joining"
    ELSE IF session[s].pc \in {"active"} \cup HandlerPcs /\ close_code[s] = None THEN "Active"
    ELSE "Closed"

PhaseMoves ==
    {<<"Connecting", "Joining">>, <<"Joining", "Active">>, <<"Joining", "Closed">>,
     <<"Active", "Closed">>}

\* C30: a session moves from Connecting to Joining, from Joining to Active or to
\* Closed, and from Active to Closed, and in no other way; it becomes Active only
\* with an ALLOWED decision and an add_participant that returned True; a Closed
\* session stays Closed; and a rejected session is in no group, and its client's
\* frames are never handled.
C30_SessionStateMachine ==
    [][\A s \in Sessions :
          /\ Phase(s)' # Phase(s) =>
                \/ <<Phase(s), Phase(s)'>> \in PhaseMoves
                \/ Phase(s) = "Connecting" /\ Phase(s)' = "Closed" /\ Rejected(s)'
          /\ Phase(s)' = "Active" => (session'[s].access_status = ALLOWED /\ WasAccepted(s)')
          /\ Phase(s) = "Closed" => Phase(s)' = "Closed"
          /\ Rejected(s)' =>
                /\ \A n \in DOMAIN groups' : s \notin groups'[n]
                /\ inbox'[s] = <<>>
                /\ session'[s].frames = 0]_vars

\* One session is Closed after it was Active and was torn down, another after it
\* was rejected.
C30_Witness ==
    \E s, t \in Sessions :
        /\ session[s].pc = "closed" /\ WasAccepted(s) /\ session[s].frames > 0
        /\ session[t].pc = "closed" /\ Rejected(t)

\* The usernames an event's kick list names.
KickListOf(event) ==
    LET to_kick == split(event.kick, KICK_SEPARATOR)
    IN {to_kick[i] : i \in 1..Len(to_kick)} \ {<<>>}

\* The usernames the registry lists for the room that must leave under the mode.
ToLeaveUnder(room, mode) ==
    LET registered == {row[2] : row \in {r \in DOMAIN participants :
                                          r[1] = room /\ participants[r] > 0}}
    IN IF mode = CONFIRMED THEN {u \in registered : startswith(u, GUEST_PREFIX)}
       ELSE IF mode = PRIVATE THEN {u \in registered : u \notin rooms[room].invited_users}
       ELSE {}

C32_BystanderToldCountAndInfo ==
    [][\A s \in Sessions :
          LET event == Head(queue[s])
              room == session[s].room
          IN /\ (/\ session[s].pc = "active"
                 /\ Open(s)
                 /\ queue[s] # <<>>
                 /\ event.type = "chat_access_type_change"
                 /\ session[s].username \notin KickListOf(event)
                 /\ session'[s].pc \in {"access_remove", "access_info"})
                => /\ session'[s].pc = "access_info"
                   /\ Open(s)'
                   /\ sent'[s] = <<[update |-> "users kicked because access change",
                                    access_type |-> event.access_type,
                                    quantity |-> Cardinality(KickListOf(event))]>>
             /\ (/\ session[s].pc = "access_info"
                 /\ Open(s)
                 /\ session'[s].pc # "access_info")
                => /\ session'[s].pc = "active"
                   /\ Open(s)'
                   /\ Len(sent'[s]) = 1
                   /\ sent'[s][1].update = "info"
                   /\ sent'[s][1].access_type = rooms[room].access_type
                   /\ sent'[s][1].participants =
                          order_by(get_participants(participants, room)
                                   \ KickListOf(event))]_vars

\* C33: a "change room name" frame of any Active session whose name is not empty
\* once trimmed stores that name as the room's name and hands every subscriber
\* a rename event with it, which each subscribed session forwards to its client
\* as "name change" with the submitted name; a frame whose name is missing,
\* empty or only whitespace changes no room and publishes nothing.
C33_RenameStoresAndPublishes ==
    [][/\ \A o \in Sessions :
            Receives(o, "change room name") =>
                LET name == name_of(inbox[o][1])
                    room == session[o].room
                IN IF strip(name) # <<>>
                   THEN /\ rooms'[room].name = name
                        /\ \A t \in Sessions :
                              IF t \in groups[session[o].room_number]
                              THEN queue'[t] = Append(queue[t],
                                                      [type |-> "chat_room_name_change",
                                                       name |-> name])
                              ELSE queue'[t] = queue[t]
                   ELSE /\ rooms' = rooms
                        /\ queue' = queue
       /\ \A s \in Sessions :
            (Open(s) /\ Handles(s, "chat_room_name_change"))
                => sent'[s] = <<[update |-> "name change", name |-> Head(queue[s]).name]>>]_vars

\* C34: a "kick user" or "ban user" frame of the owner that has no username
\* publishes no event, and no session leaves Active in the step.
C34_NoTargetNoEvent ==
    [][\A o \in Sessions :
          (/\ Receives(o, "kick user") \/ Receives(o, "ban user")
           /\ session[o].is_owner
           /\ "username" \notin DOMAIN inbox[o][1])
              => /\ queue' = queue
                 /\ \A s \in Sessions : Open(s) => Open(s)']_vars

\* The fields of a query string as its client wrote it, before any decoding.
RawFields(query_string) == split(query_string, <<"&">>)

\* The raw value of the first guest field that has one: the pieces after the
\* field's first "=", or nothing when no field is named guest and has a value.
RawGuestValue(query_string) ==
    LET fields == SelectSeq(RawFields(query_string),
                            LAMBDA f : /\ Len(f) > 2
                                       /\ f[1] = "guest"
                                       /\ f[2] = "=")
    IN IF fields = <<>> THEN <<>> ELSE SubSeq(fields[1], 3, Len(fields[1]))

\* The value has an escape that is not UTF-8.
Undecodable(raw) == \E i \in 1..Len(raw) : raw[i] = "%FF"

\* The URL-decoded text of a decodable raw value.
Decoded(raw) == text([i \in 1..Len(raw) |-> IF raw[i] = "%26" THEN "&" ELSE raw[i]])

\* C35: for an authenticated caller the resolved username is the account's
\* username; for any other caller it is "guest_" followed by the decoded value
\* of the query string's guest parameter when the parameter has a value that
\* can be decoded, and the empty string when the parameter is absent, empty or
\* cannot be decoded; no exception leaves the resolver.
C35_ResolverContract ==
    ev.called =>
        /\ ev.error = None
        /\ ev.username =
              IF ev.user.is_authenticated THEN ev.user.username
              ELSE LET raw == RawGuestValue(ev.query_string)
                   IN IF raw = <<>> \/ Undecodable(raw) THEN <<>>
                      ELSE GUEST_PREFIX \o Decoded(raw)

\* The session takes the event at the head of its channel, of the given type.
Dispatches(s, type) ==
    /\ Dispatching(s)
    /\ queue[s] # <<>>
    /\ Head(queue[s]).type = type
    /\ queue'[s] = Tail(queue[s])

\* C36: no step takes a username out of a room's banned set; a ban event is put
\* on a channel only by a "ban user" frame of a session whose owner flag is
\* true; a username enters a banned set only in a step in which a session of
\* that room with an authenticated user dispatches a ban event that names its
\* username, and the username is that one; a session that is a guest or is not
\* named by the ban event it dispatches leaves the banned sets as they are, and
\* so does the step that takes the "ban user" frame.
C36_BannedSetGrowsByOwnerBan ==
    [][/\ \A n \in DOMAIN rooms :
            /\ rooms[n].banned_users \subseteq rooms'[n].banned_users
            /\ rooms'[n].banned_users # rooms[n].banned_users =>
                  \E s \in Sessions :
                      /\ Dispatches(s, "chat_ban")
                      /\ session[s].room = n
                      /\ session[s].user.is_authenticated
                      /\ Head(queue[s]).username = session[s].username
                      /\ rooms'[n].banned_users =
                             rooms[n].banned_users \cup {Head(queue[s]).username}
       /\ \A t \in Sessions :
            (/\ Len(queue'[t]) = Len(queue[t]) + 1
             /\ queue'[t][Len(queue'[t])].type = "chat_ban")
                => \E o \in Sessions : Receives(o, "ban user") /\ session[o].is_owner
       /\ \A s \in Sessions :
            (/\ Dispatches(s, "chat_ban")
             /\ \/ ~session[s].user.is_authenticated
                \/ Head(queue[s]).username # session[s].username)
                => \A n \in DOMAIN rooms : rooms'[n].banned_users = rooms[n].banned_users
       /\ \A o \in Sessions :
            Receives(o, "ban user")
                => \A n \in DOMAIN rooms : rooms'[n].banned_users = rooms[n].banned_users]_vars

\* C36 witness: the owner's ban of the registered user has been published and
\* handled by the user's session, which is closed, and the user alone is in the
\* room's banned set.
C36_Witness ==
    /\ rooms[RoomNumber].banned_users = {UserName}
    /\ \E o, s \in Sessions :
          /\ session[o].is_owner
          /\ session[o].content # <<>>
          /\ is_object(session[o].content[1])
          /\ action_of(session[o].content[1]) = "ban user"
          /\ session[s].username = UserName
          /\ session[s].user.is_authenticated
          /\ Closed(s)

=============================================================================
